---- MODULE Spec2Model ----
(***************************************************************************)
(* ImageSparseFit (lenstronomy/ImSim/image_sparse_solve.py): construction, *)
(* the sparse solve, the likelihood and the update of the caller's         *)
(* parameter bundles, as a state machine over one instance and the         *)
(* bundles its caller owns.                                                *)
(***************************************************************************)
EXTENDS Integers, Sequences, FiniteSets, TLC

VARIABLES
    phase,               \* "new" before __init__, "ready" once it returned, "failed" once it raised
    Data,                \* self.Data: [num_pixel, pixel_width]
    subgrid_res_source,  \* self._subgrid_res_source
    SourceModel,         \* self.SourceModel.profile_type_list
    LensLightModel,      \* self.LensLightModel (None or its profile_type_list)
    PointSource,         \* self.PointSource (None or its point_source_type_list)
    sparseSolver,        \* self.sparseSolver: the bound solver variant, or "unset"
    lensingOperator,     \* self.lensingOperator
    kwargs_lens,         \* the caller's lens parameters (kwargs_lens and kwargs_special)
    kwargs_source,       \* the caller's source bundle: a list of dicts
    kwargs_lens_light,   \* the caller's lens-light bundle: None or a list of dicts
    kwargs_ps,           \* the caller's point-source bundle: None or a list of dicts
    entry,               \* the bundles as they were when the last call was entered
    calls,               \* the collaborator calls of the last call, in order
    logL,                \* what Data.log_likelihood returned in the last call
    last,                \* the last call: its name, what it raised, what it returned
    psf_error_map,       \* self.PSF.psf_error_map: all zero or not
    likelihood_mask,     \* self.likelihood_mask: one boolean per data pixel
    lens_mapping,        \* the mapping self.lensingOperator holds: none yet, or the one last built
    printed,             \* what the last call printed
    _lens_model,         \* PSBase._lens_model: None or the lens model, NoValue before PSBase.__init__
    _solver,             \* PSBase._solver: None or the LensEquationSolver
    k_list               \* PSBase.k_list: None or one lens-model index list per image

vars == <<phase, Data, subgrid_res_source, SourceModel, LensLightModel, PointSource,
          sparseSolver, lensingOperator, kwargs_source, kwargs_lens_light, kwargs_ps,
          entry, calls, logL, last, psf_error_map, likelihood_mask, lens_mapping, printed,
          kwargs_lens, _lens_model, _solver, k_list>>

\* the fields of a PSBase
ps_base == <<_lens_model, _solver, k_list>>

----------------------------------------------------------------------------
(* Bounds *)

MaxModels == 2          \* longest light-model list given to the constructor
MaxSubgrid == 2         \* largest source supersampling factor
MaxSolverOutputs == 2   \* number of distinct coefficient vectors the solver may return
MaxParams == 2          \* largest number of linear point-source parameters
MaxFrames == 2          \* longest point_source_frame_list drawn freely
MaxLen == 3             \* longest array given to _expand_to_array and _shrink_array
MaxGauss == 2           \* largest number of Gaussians of a multi-Gaussian profile

----------------------------------------------------------------------------
(* Python values *)

None == [isNone |-> TRUE]
Some(l) == [isNone |-> FALSE, v |-> l]
IsNone(x) == x.isNone
List(x) == x.v

NoValue == [kind |-> "none"]
Float(m, e) == [kind |-> "finite", mant |-> m, exp |-> e]
NaN == [kind |-> "nan"]
PosInf == [kind |-> "inf"]
NegInf == [kind |-> "-inf"]

\* d[k] = v on a Python dict
DictSet(d, k, v) == [x \in (DOMAIN d) \cup {k} |-> IF x = k THEN v ELSE d[x]]

\* l[i][k] = v on a list of dicts (i counts from 1)
ListDictSet(l, i, k, v) == [l EXCEPT ![i] = DictSet(l[i], k, v)]

RECURSIVE Gcd(_, _)
Gcd(a, b) == IF b = 0 THEN a ELSE Gcd(b, a % b)

\* a float is kept as a reduced fraction <<numerator, denominator>>;
\* a / b of Python 3 for a positive float a and a positive int b
TrueDiv(a, b) == <<a[1] \div Gcd(a[1], a[2] * b), (a[2] * b) \div Gcd(a[1], a[2] * b)>>

\* a * b and a / b on floats kept as reduced fractions
FracMul(a, b) ==
    <<(a[1] * b[1]) \div Gcd(a[1] * b[1], a[2] * b[2]),
      (a[2] * b[2]) \div Gcd(a[1] * b[1], a[2] * b[2])>>
FracDiv(a, b) == FracMul(a, <<b[2], b[1]>>)

ProfileNames == {"STARLETS", "STARLETS_GEN2", "SERSIC"}
PointSourceNames == {"LENSED_POSITION"}

SeqsUpTo(S, n) == UNION {[1..k -> S] : k \in 0..n}

----------------------------------------------------------------------------
(* __init__ *)

no_lens_light(ll) == IsNone(ll) \/ Len(List(ll)) = 0
no_point_sources(ps) == IsNone(ps) \/ Len(List(ps)) = 0

\* a check that looks at the first profile only
not_single_starlet_first_only(model_list) ==
    \/ Len(model_list) < 1
    \/ model_list[1] \notin {"STARLETS", "STARLETS_GEN2"}

\* len(model_list) != 1 or model_list[0] not in ['STARLETS', 'STARLETS_GEN2']
not_single_starlet(model_list) ==
    \/ Len(model_list) # 1
    \/ model_list[1] \notin {"STARLETS", "STARLETS_GEN2"}

\* the outcome of the mode selection of __init__: what it raises and the solver it binds
select_solver(src, ll, ps) ==
    IF no_lens_light(ll) /\ no_point_sources(ps)
    THEN IF not_single_starlet(src)
         THEN [raised |-> "ValueError", sparseSolver |-> "unset"]
         ELSE [raised |-> "none", sparseSolver |-> "SparseSolverSource"]
    ELSE IF no_point_sources(ps)
    THEN IF not_single_starlet(List(ll))
         THEN [raised |-> "ValueError", sparseSolver |-> "unset"]
         ELSE [raised |-> "none", sparseSolver |-> "SparseSolverSourceLens"]
    ELSE IF no_lens_light(ll)
    THEN [raised |-> "none", sparseSolver |-> "SparseSolverSourcePS"]
    ELSE [raised |-> "none", sparseSolver |-> "unset"]

Idle == [op |-> "none", raised |-> "none", ret |-> NoValue]

\* no PSBase has been constructed
NoPSBase == _lens_model = NoValue /\ _solver = NoValue /\ k_list = NoValue

\* the fields of the instance once __init__(src, ll, ps, sub) has returned or raised
Constructed(src, ll, ps, sub) ==
    LET sel == select_solver(src, ll, ps) IN
    [phase |-> IF sel.raised = "none" THEN "ready" ELSE "failed",
     raised |-> sel.raised,
     sparseSolver |-> sel.sparseSolver,
     lensingOperator |-> IF sel.raised = "none" THEN "LensingOperatorInterpol" ELSE "unset"]

DataValues == [num_pixel : {4}, pixel_width : {<<3, 1>>}]

\* np.all(self.PSF.psf_error_map == 0) holds of "zero" only
PsfErrorMaps == {"zero", "nonzero"}

PsfWarning == "WARNING : SparseSolver with point sources does not support PSF error map for now !"

\* a warning that is printed for every mode
init_printed_any_mode(ll, ps, psf) ==
    IF psf # "zero" THEN <<PsfWarning>> ELSE <<>>

\* what __init__ prints: the warning of the point-source branch
init_printed(ll, ps, psf) ==
    IF ~no_point_sources(ps) /\ no_lens_light(ll) /\ psf # "zero"
    THEN <<PsfWarning>>
    ELSE <<>>

\* the lens parameters a caller may pass (kwargs_lens together with kwargs_special)
LensValues == {"lens_a", "lens_b"}

\* likelihood_mask=None: every pixel of the data counts
FullMask == [p \in 1..4 |-> TRUE]

\* the masks of this model: all pixels, or all but the first
LikelihoodMasks == {FullMask, [p \in 1..4 |-> p # 1]}

NoCall ==
    /\ kwargs_lens = "lens_a"
    /\ kwargs_source = <<>>
    /\ kwargs_lens_light = None
    /\ kwargs_ps = None
    /\ entry = NoValue
    /\ calls = <<>>
    /\ logL = NoValue

\* before construction
InitNew ==
    /\ phase = "new"
    /\ Data \in DataValues
    /\ subgrid_res_source = 1
    /\ SourceModel = <<>>
    /\ LensLightModel = None
    /\ PointSource = None
    /\ sparseSolver = "unset"
    /\ lensingOperator = "unset"
    /\ NoCall
    /\ last = Idle
    /\ psf_error_map \in PsfErrorMaps
    /\ likelihood_mask = FullMask
    /\ lens_mapping = NoValue
    /\ printed = <<>>
    /\ NoPSBase

__init__(src, ll, ps, sub) ==
    /\ phase = "new"
    /\ subgrid_res_source' = sub
    /\ SourceModel' = src
    /\ LensLightModel' = ll
    /\ PointSource' = ps
    /\ LET c == Constructed(src, ll, ps, sub) IN
        /\ sparseSolver' = c.sparseSolver
        /\ phase' = c.phase
        /\ lensingOperator' = c.lensingOperator
        /\ last' = [op |-> "__init__", raised |-> c.raised, ret |-> NoValue]
        /\ printed' = IF c.raised = "none" THEN init_printed(ll, ps, psf_error_map) ELSE <<>>
    /\ UNCHANGED <<ps_base, Data, kwargs_source, kwargs_lens_light, kwargs_ps, entry, calls, logL,
                   psf_error_map, likelihood_mask, lens_mapping, kwargs_lens>>

ModelLists(names, n) == SeqsUpTo(names, n)
OptModelLists(names, n) == {None} \cup {Some(l) : l \in SeqsUpTo(names, n)}

Construct ==
    /\ phase = "new"
    /\ \E src \in ModelLists(ProfileNames, MaxModels),
          ll \in OptModelLists(ProfileNames, MaxModels),
          ps \in OptModelLists(PointSourceNames, MaxModels),
          sub \in 1..MaxSubgrid :
        __init__(src, ll, ps, sub)

\* the calls never read a profile name: one starlet and one other profile stand
\* for the lists of the instances they are made on
CallProfileNames == {"STARLETS", "SERSIC"}

\* an instance whose construction returned, its PSF error map one of psfs and
\* its likelihood mask one of masks
ReadyInstance(psfs, masks) ==
    /\ Data \in DataValues
    /\ \E src \in ModelLists(CallProfileNames, MaxModels),
          ll \in OptModelLists(CallProfileNames, MaxModels),
          ps \in OptModelLists(PointSourceNames, MaxModels),
          sub \in 1..MaxSubgrid :
        LET c == Constructed(src, ll, ps, sub) IN
        /\ c.phase = "ready"
        /\ phase = c.phase
        /\ subgrid_res_source = sub
        /\ SourceModel = src
        /\ LensLightModel = ll
        /\ PointSource = ps
        /\ sparseSolver = c.sparseSolver
        /\ lensingOperator = c.lensingOperator
        /\ last = [op |-> "__init__", raised |-> "none", ret |-> NoValue]
        /\ psf_error_map \in psfs
        /\ likelihood_mask \in masks
        /\ printed = init_printed(ll, ps, psf_error_map)
    /\ lens_mapping = NoValue
    /\ NoPSBase

\* an instance built on a PSF without error map (the default of the PSF class),
\* before any call
InitReady ==
    /\ ReadyInstance({"zero"}, {FullMask})
    /\ NoCall

----------------------------------------------------------------------------
(* The bundles the caller passes *)

\* one light-profile dict as the outer optimizer hands it over: without the
\* grid-geometry and linear entries ("fresh"), or with those of another grid ("stale")
light_kwargs(k, flavour) ==
    IF flavour = "fresh"
    THEN [n_scales |-> k + 1]
    ELSE [n_scales |-> k + 1, n_pixels |-> 1, scale |-> <<7, 1>>,
          center_x |-> 1, center_y |-> 2, amp |-> 0]

ps_kwargs(k, flavour) ==
    IF flavour = "fresh"
    THEN [ra_image |-> k]
    ELSE [ra_image |-> k, point_amp |-> 0]

Flavours == {"fresh", "stale"}

\* the caller builds one dict per profile of each model list; a bundle of a model
\* without profiles is left at its default None or given as the empty list
CallerBundles ==
    /\ phase = "ready"
    /\ \E fs \in Flavours, fl \in Flavours :
        /\ kwargs_source' = [k \in 1..Len(SourceModel) |-> light_kwargs(k, fs)]
        /\ kwargs_lens_light' =
              IF no_lens_light(LensLightModel)
              THEN IF fl = "fresh" THEN None ELSE Some(<<>>)
              ELSE Some([k \in 1..Len(List(LensLightModel)) |-> light_kwargs(k, fl)])
        /\ kwargs_ps' =
              IF no_point_sources(PointSource)
              THEN IF fs = "fresh" THEN None ELSE Some(<<>>)
              ELSE Some([k \in 1..Len(List(PointSource)) |-> ps_kwargs(k, fs)])
    /\ entry' = NoValue
    /\ calls' = <<>>
    /\ logL' = NoValue
    /\ last' = [op |-> "caller", raised |-> "none", ret |-> NoValue]
    /\ printed' = <<>>
    /\ UNCHANGED <<ps_base, phase, Data, subgrid_res_source, SourceModel, LensLightModel,
                   PointSource, sparseSolver, lensingOperator, psf_error_map, likelihood_mask, lens_mapping, kwargs_lens>>

----------------------------------------------------------------------------
(* update_fixed_param, update_linear_kwargs, update_sparse_kwargs *)

\* an update that recentres every profile of the lists, not only the first
update_fixed_param_every_entry(ks, kll) ==
    IF Len(ks) = 0
    THEN [raised |-> "IndexError", ks |-> ks, kll |-> kll]
    ELSE LET Fix(d, n, sc) ==
                 DictSet(DictSet(DictSet(DictSet(d, "n_pixels", n), "scale", sc),
                                 "center_x", 0), "center_y", 0)
             Centre(d) == DictSet(DictSet(d, "center_x", 0), "center_y", 0)
             s4 == [k \in 1..Len(ks) |->
                      IF k = 1
                      THEN Fix(ks[k], Data.num_pixel * subgrid_res_source * subgrid_res_source,
                               TrueDiv(Data.pixel_width, subgrid_res_source))
                      ELSE Centre(ks[k])]
         IN  IF ~IsNone(kll) /\ Len(List(kll)) > 0
             THEN [raised |-> "none", ks |-> s4,
                   kll |-> Some([k \in 1..Len(List(kll)) |->
                                  IF k = 1
                                  THEN Fix(List(kll)[k], Data.num_pixel, Data.pixel_width)
                                  ELSE Centre(List(kll)[k])])]
             ELSE [raised |-> "none", ks |-> s4, kll |-> kll]

\* an update that scales the pixel count the bundle already holds
update_fixed_param_drift(ks, kll) ==
    IF Len(ks) = 0
    THEN [raised |-> "IndexError", ks |-> ks, kll |-> kll]
    ELSE LET old == IF "n_pixels" \in DOMAIN ks[1] THEN ks[1]["n_pixels"] ELSE Data.num_pixel
             s1 == ListDictSet(ks, 1, "n_pixels", old * subgrid_res_source * subgrid_res_source)
             s2 == ListDictSet(s1, 1, "scale", TrueDiv(Data.pixel_width, subgrid_res_source))
             s3 == ListDictSet(s2, 1, "center_x", 0)
             s4 == ListDictSet(s3, 1, "center_y", 0)
         IN  IF ~IsNone(kll) /\ Len(List(kll)) > 0
             THEN LET l1 == ListDictSet(List(kll), 1, "n_pixels", Data.num_pixel)
                      l2 == ListDictSet(l1, 1, "scale", Data.pixel_width)
                      l3 == ListDictSet(l2, 1, "center_x", 0)
                      l4 == ListDictSet(l3, 1, "center_y", 0)
                  IN  [raised |-> "none", ks |-> s4, kll |-> Some(l4)]
             ELSE [raised |-> "none", ks |-> s4, kll |-> kll]

\* an update that gives the source the pixel count of the data grid
update_fixed_param_data_grid(ks, kll) ==
    IF Len(ks) = 0
    THEN [raised |-> "IndexError", ks |-> ks, kll |-> kll]
    ELSE LET Fix(d) ==
                 DictSet(DictSet(DictSet(DictSet(d, "n_pixels", Data.num_pixel),
                                         "scale", Data.pixel_width),
                                 "center_x", 0), "center_y", 0)
         IN  [raised |-> "none", ks |-> [ks EXCEPT ![1] = Fix(ks[1])],
              kll |-> IF ~IsNone(kll) /\ Len(List(kll)) > 0
                      THEN Some([List(kll) EXCEPT ![1] = Fix(List(kll)[1])])
                      ELSE kll]

\* the in-place effect of update_fixed_param on the two lists it is given;
\* kwargs_source[0] of an empty list raises before anything is written, and int()
\* of the product of the integers num_pixel and subgrid_res_source**2 is that product
update_fixed_param(ks, kll) ==
    IF Len(ks) = 0
    THEN [raised |-> "IndexError", ks |-> ks, kll |-> kll]
    ELSE LET s1 == ListDictSet(ks, 1, "n_pixels", Data.num_pixel * subgrid_res_source * subgrid_res_source)
             s2 == ListDictSet(s1, 1, "scale", TrueDiv(Data.pixel_width, subgrid_res_source))
             s3 == ListDictSet(s2, 1, "center_x", 0)
             s4 == ListDictSet(s3, 1, "center_y", 0)
         IN  IF ~IsNone(kll) /\ Len(List(kll)) > 0
             THEN LET l1 == ListDictSet(List(kll), 1, "n_pixels", Data.num_pixel)
                      l2 == ListDictSet(l1, 1, "scale", Data.pixel_width)
                      l3 == ListDictSet(l2, 1, "center_x", 0)
                      l4 == ListDictSet(l3, 1, "center_y", 0)
                  IN  [raised |-> "none", ks |-> s4, kll |-> Some(l4)]
             ELSE [raised |-> "none", ks |-> s4, kll |-> kll]

NumProfiles(m) == IF IsNone(m) THEN 0 ELSE Len(List(m))

\* LightModel.update_linear / PointSource.update_linear: profile k takes the
\* next coefficient block of param
write_linear(l, n, key, param, i) ==
    [k \in 1..Len(l) |-> IF k <= n THEN DictSet(l[k], key, param[i + k]) ELSE l[k]]

\* ImageLinearFit.update_linear_kwargs: source, then lens light, then point sources
update_linear_kwargs(param, ks, kll, kps) ==
    LET ns == Len(SourceModel)
        nl == NumProfiles(LensLightModel)
        np == NumProfiles(PointSource)
    IN  IF \/ Len(ks) < ns
           \/ (nl > 0 /\ (IsNone(kll) \/ Len(List(kll)) < nl))
           \/ (np > 0 /\ (IsNone(kps) \/ Len(List(kps)) < np))
        THEN [raised |-> "TypeError", ks |-> ks, kll |-> kll, kps |-> kps]
        ELSE [raised |-> "none",
              ks  |-> write_linear(ks, ns, "amp", param, 0),
              kll |-> IF nl = 0 THEN kll
                      ELSE Some(write_linear(List(kll), nl, "amp", param, ns)),
              kps |-> IF np = 0 THEN kps
                      ELSE Some(write_linear(List(kps), np, "point_amp", param, ns + nl))]

\* an update that works on copies of the lists it is given
update_sparse_kwargs_copy(param, ks, kll, kps) ==
    LET f == update_fixed_param(ks, kll) IN
    IF f.raised # "none"
    THEN [raised |-> f.raised, ks |-> ks, kll |-> kll, kps |-> kps,
          fixed |-> NoValue]
    ELSE LET u == update_linear_kwargs(param, f.ks, f.kll, kps) IN
         [raised |-> u.raised, ks |-> ks, kll |-> kll, kps |-> kps,
          fixed |-> [ks |-> f.ks, kll |-> f.kll]]

\* update_sparse_kwargs: the state of the lists it was given once it returns
\* (or raises), and the lists as update_linear_kwargs received them; its return
\* value is these same lists
update_sparse_kwargs(param, ks, kll, kps) ==
    LET f == update_fixed_param(ks, kll) IN
    IF f.raised # "none"
    THEN [raised |-> f.raised, ks |-> f.ks, kll |-> f.kll, kps |-> kps,
          fixed |-> NoValue]
    ELSE LET u == update_linear_kwargs(param, f.ks, f.kll, kps) IN
         [raised |-> u.raised, ks |-> u.ks, kll |-> u.kll, kps |-> u.kps,
          fixed |-> [ks |-> f.ks, kll |-> f.kll]]

----------------------------------------------------------------------------
(* image_sparse_solve and likelihood_data_given_model *)

\* what the bound solver may return from solve(): a model image and the
\* coefficient vector, one block per linear profile (source, lens light, point source)
NumLinear == Len(SourceModel) + NumProfiles(LensLightModel) + NumProfiles(PointSource)
SolverOutputs ==
    {[model |-> 100 + c, param |-> [i \in 1..NumLinear |-> 10 * c + i]] : c \in 1..MaxSolverOutputs}

\* a noise model that is kept from the call before
_error_response_cached(kl, kps) ==
    IF last.op = "image_sparse_solve" /\ last.raised = "none"
    THEN [C_D_response |-> last.ret.model_error, model_error |-> last.ret.model_error]
    ELSE [C_D_response |-> [lens |-> kl, ps |-> kps], model_error |-> [lens |-> kl, ps |-> kps]]

\* ImageLinearFit._error_response: the noise model of the parameters it is given
_error_response(kl, kps) ==
    [C_D_response |-> [lens |-> kl, ps |-> kps], model_error |-> [lens |-> kl, ps |-> kps]]

\* ImageModel.point_source: reads kwargs_ps[i] for every point-source model
point_source(kps) ==
    IF ~no_point_sources(PointSource) /\ IsNone(kps)
    THEN [raised |-> "TypeError", image |-> NoValue]
    ELSE [raised |-> "none", image |-> [of |-> kps]]

\* a solve that rewrites the bundles before it invokes the solver
_image_sparse_solve_update_first(kl, ks, kll, kps, out) ==
    LET err == _error_response(kl, kps)
        ps == point_source(kps)
        c1 == <<[fn |-> "_error_response", ks |-> ks, kll |-> kll, kps |-> kps, ret |-> err]>>
        c2 == Append(c1, [fn |-> "point_source", ks |-> ks, kll |-> kll, kps |-> kps,
                          ret |-> ps.image])
        Abort(e, c) == [raised |-> e, calls |-> c, ks |-> ks, kll |-> kll, kps |-> kps,
                        ret |-> NoValue]
    IN  IF ps.raised # "none" THEN Abort(ps.raised, c2)
        ELSE LET f == update_fixed_param(ks, kll)
                 c3 == Append(c2, [fn |-> "update_fixed_param", ks |-> ks, kll |-> kll,
                                   kps |-> kps, ret |-> NoValue])
             IN  IF f.raised # "none" THEN Abort(f.raised, c3)
                 ELSE IF sparseSolver = "unset"
                 THEN [raised |-> "AttributeError", calls |-> c3, ks |-> f.ks,
                       kll |-> f.kll, kps |-> kps, ret |-> NoValue]
                 ELSE LET u == update_linear_kwargs(out.param, f.ks, f.kll, kps)
                          c4 == Append(c3, [fn |-> "sparseSolver.solve", ks |-> f.ks,
                                            kll |-> f.kll, kps |-> kps, ret |-> out])
                          c5 == Append(c4, [fn |-> "update_linear_kwargs", ks |-> f.ks,
                                            kll |-> f.kll, kps |-> kps, ret |-> NoValue])
                      IN  [raised |-> u.raised, calls |-> c5,
                           ks |-> u.ks, kll |-> u.kll, kps |-> u.kps,
                           ret |-> IF u.raised = "none"
                                   THEN [model |-> out.model,
                                         model_error |-> err.model_error,
                                         param |-> out.param]
                                   ELSE NoValue]

\* a solve that computes the noise model only once the solver has returned
_image_sparse_solve_error_last(kl, ks, kll, kps, out) ==
    LET err == _error_response(kl, kps)
        ps == point_source(kps)
        c1 == <<[fn |-> "point_source", ks |-> ks, kll |-> kll, kps |-> kps,
                 ret |-> ps.image]>>
        Abort(e, c) == [raised |-> e, calls |-> c, ks |-> ks, kll |-> kll, kps |-> kps,
                        ret |-> NoValue]
    IN  IF ps.raised # "none" THEN Abort(ps.raised, c1)
        ELSE IF sparseSolver = "unset" THEN Abort("AttributeError", c1)
        ELSE LET u == update_sparse_kwargs(out.param, ks, kll, kps)
                 c2 == Append(c1, [fn |-> "sparseSolver.solve", ks |-> ks, kll |-> kll,
                                   kps |-> kps, ret |-> out])
                 c3 == Append(c2, [fn |-> "_error_response", ks |-> ks, kll |-> kll,
                                   kps |-> kps, ret |-> err])
                 c4 == Append(c3, [fn |-> "update_fixed_param", ks |-> ks, kll |-> kll,
                                   kps |-> kps, ret |-> NoValue])
             IN  [raised |-> u.raised,
                  calls |-> IF u.fixed = NoValue THEN c4
                            ELSE Append(c4, [fn |-> "update_linear_kwargs",
                                             ks |-> u.fixed.ks, kll |-> u.fixed.kll,
                                             kps |-> kps, ret |-> NoValue]),
                  ks |-> u.ks, kll |-> u.kll, kps |-> u.kps,
                  ret |-> IF u.raised = "none"
                          THEN [model |-> out.model, model_error |-> err.model_error,
                                param |-> out.param]
                          ELSE NoValue]

\* one entry of the call log: the callee, the lists as it received them, and what
\* it returned
Call(fn, ks, kll, kps, ret) == [fn |-> fn, ks |-> ks, kll |-> kll, kps |-> kps, ret |-> ret]

\* _image_sparse_solve on the caller's lists ks, kll, kps, with out what the solver
\* returns: the calls made, the state the lists are left in, and the outcome
_image_sparse_solve(kl, ks, kll, kps, out) ==
    LET err == _error_response(kl, kps)
        ps == point_source(kps)
        c1 == <<Call("_error_response", ks, kll, kps, err)>>
        c2 == Append(c1, Call("point_source", ks, kll, kps, ps.image))
        c3 == Append(c2, Call("sparseSolver.solve", ks, kll, kps, out))
        Abort(e, c) == [raised |-> e, calls |-> c, ks |-> ks, kll |-> kll, kps |-> kps,
                        ret |-> NoValue]
    IN  IF ps.raised # "none" THEN Abort(ps.raised, c2)
        ELSE IF sparseSolver = "unset" THEN Abort("AttributeError", c2)
        ELSE LET u == update_sparse_kwargs(out.param, ks, kll, kps)
                 c4 == Append(c3, Call("update_fixed_param", ks, kll, kps, NoValue))
             IN  [raised |-> u.raised,
                  calls |-> IF u.fixed = NoValue THEN c4
                            ELSE Append(c4, Call("update_linear_kwargs",
                                                 u.fixed.ks, u.fixed.kll, kps, NoValue)),
                  ks |-> u.ks, kll |-> u.kll, kps |-> u.kps,
                  ret |-> IF u.raised = "none"
                          THEN [model |-> out.model, model_error |-> err.model_error,
                                param |-> out.param]
                          ELSE NoValue]

Snapshot == [ks |-> kwargs_source, kll |-> kwargs_lens_light, kps |-> kwargs_ps,
             kl |-> kwargs_lens, mapping |-> lens_mapping]

\* a solver that works on the operator of the orchestrator and rebuilds its
\* mapping for the lens parameters of the solve
solve_lens_mapping_shared(kl) == [built_for |-> kl, sub |-> subgrid_res_source]

\* the mapping self.lensingOperator holds once a solve with lens parameters kl is
\* over: the solver is constructed without that operator and the solve does not
\* name it
solve_lens_mapping(kl) == lens_mapping

image_sparse_solve ==
    /\ phase = "ready"
    /\ \E out \in SolverOutputs :
        \E r \in {_image_sparse_solve(kwargs_lens, kwargs_source, kwargs_lens_light,
                                       kwargs_ps, out)} :
        /\ kwargs_source' = r.ks
        /\ kwargs_lens_light' = r.kll
        /\ kwargs_ps' = r.kps
        /\ calls' = r.calls
        /\ last' = [op |-> "image_sparse_solve", raised |-> r.raised, ret |-> r.ret]
        /\ entry' = Snapshot
    /\ lens_mapping' = solve_lens_mapping(kwargs_lens)
    /\ logL' = NoValue
    /\ printed' = <<>>
    /\ UNCHANGED <<ps_base, phase, Data, subgrid_res_source, SourceModel, LensLightModel,
                   PointSource, sparseSolver, lensingOperator, psf_error_map, likelihood_mask,
                   kwargs_lens>>

\* a float test that lets NaN through
isfinite_nan(x) == x.kind \notin {"inf", "-inf"}

\* np.isfinite
isfinite(x) == x.kind = "finite"

\* the penalty -1e20
Penalty == Float(-1, 20)

\* what Data.log_likelihood may return
LogLValues == {NaN, PosInf, NegInf, Float(-3, 0)}

\* the return value of _likelihood_data_given_model once Data.log_likelihood gave l
likelihood_value(l) == IF ~isfinite(l) THEN Penalty ELSE l

\* likelihood_data_given_model: _image_sparse_solve is called without kwargs_ps
likelihood_data_given_model ==
    /\ phase = "ready"
    /\ \E out \in SolverOutputs, l \in LogLValues :
        \E r \in {_image_sparse_solve(kwargs_lens, kwargs_source, kwargs_lens_light,
                                       None, out)} :
        /\ kwargs_source' = r.ks
        /\ kwargs_lens_light' = r.kll
        /\ calls' = r.calls
        /\ logL' = IF r.raised = "none" THEN l ELSE NoValue
        /\ last' = [op |-> "likelihood_data_given_model", raised |-> r.raised,
                    ret |-> IF r.raised = "none" THEN likelihood_value(l) ELSE NoValue]
        /\ entry' = Snapshot
    /\ lens_mapping' = solve_lens_mapping(kwargs_lens)
    /\ printed' = <<>>
    /\ UNCHANGED <<ps_base, phase, Data, subgrid_res_source, SourceModel, LensLightModel,
                   PointSource, sparseSolver, lensingOperator, kwargs_ps,
                   psf_error_map, likelihood_mask, kwargs_lens>>

\* update_fixed_param called on the caller's bundles
UpdateFixedParam ==
    /\ phase = "ready"
    /\ \E f \in {update_fixed_param(kwargs_source, kwargs_lens_light)} :
        /\ kwargs_source' = f.ks
        /\ kwargs_lens_light' = f.kll
        /\ last' = [op |-> "update_fixed_param", raised |-> f.raised,
                    ret |-> IF f.raised = "none" THEN [ks |-> f.ks, kll |-> f.kll] ELSE NoValue]
    /\ entry' = Snapshot
    /\ calls' = <<>>
    /\ logL' = NoValue
    /\ printed' = <<>>
    /\ UNCHANGED <<ps_base, phase, Data, subgrid_res_source, SourceModel, LensLightModel,
                   PointSource, sparseSolver, lensingOperator, kwargs_ps,
                   psf_error_map, likelihood_mask, lens_mapping, kwargs_lens>>

----------------------------------------------------------------------------
(* source_surface_brightness and lens_surface_brightness *)

\* the caller moves to other lens parameters (a step of the outer optimizer)
CallerLens ==
    /\ phase = "ready"
    /\ \E kl \in LensValues \ {kwargs_lens} : kwargs_lens' = kl
    /\ entry' = NoValue
    /\ calls' = <<>>
    /\ logL' = NoValue
    /\ last' = [op |-> "caller", raised |-> "none", ret |-> NoValue]
    /\ printed' = <<>>
    /\ UNCHANGED <<ps_base, phase, Data, subgrid_res_source, SourceModel, LensLightModel,
                   PointSource, sparseSolver, lensingOperator, kwargs_source,
                   kwargs_lens_light, kwargs_ps, psf_error_map, likelihood_mask, lens_mapping>>

\* self.Data.pixel_width**2
pixel_area == FracMul(Data.pixel_width, Data.pixel_width)

\* LightModel.surface_brightness at the coordinates of a grid: a surface-brightness
\* vector, known by the parameters it is the light of and by the factor it has
\* been multiplied with since
surface_brightness(grid, kwargs, k) ==
    [of |-> [kwargs |-> kwargs, k |-> k], grid |-> grid, through |-> NoValue,
     convolved |-> FALSE, factor |-> <<1, 1>>]

\* an operator that never rebuilds a mapping it holds
source2image_keep(source_light, kl, update_lens) ==
    LET build == lens_mapping = NoValue
        m == IF build THEN [built_for |-> kl, sub |-> subgrid_res_source] ELSE lens_mapping
    IN  [mapping |-> m, built |-> build,
         image |-> [source_light EXCEPT !.grid = "image", !.through = m.built_for]]

\* an operator that rebuilds its mapping in every call
source2image_rebuild(source_light, kl, update_lens) ==
    LET m == [built_for |-> kl, sub |-> subgrid_res_source]
    IN  [mapping |-> m, built |-> TRUE,
         image |-> [source_light EXCEPT !.grid = "image", !.through = m.built_for]]

\* an operator whose reuse path leaves out the pixel-area ratio
source2image_reuse_unnormalised(source_light, kl, update_lens) ==
    LET build == update_lens \/ lens_mapping = NoValue
        m == IF build THEN [built_for |-> kl, sub |-> subgrid_res_source] ELSE lens_mapping
    IN  [mapping |-> m, built |-> build,
         image |-> [source_light EXCEPT !.grid = "image", !.through = m.built_for,
                                        !.factor = IF build THEN @
                                                   ELSE FracMul(@, pixel_area)]]

\* lensingOperator.source2image: builds the mapping for kl when asked to (or when
\* it holds none) and applies the mapping it then holds; surface brightness is
\* conserved from the source grid to the image grid
source2image(source_light, kl, update_lens) ==
    LET build == update_lens \/ lens_mapping = NoValue
        m == IF build THEN [built_for |-> kl, sub |-> subgrid_res_source] ELSE lens_mapping
    IN  [mapping |-> m, built |-> build,
         image |-> [source_light EXCEPT !.grid = "image", !.through = m.built_for]]

\* Numerics.re_size_convolve: onto the data grid, convolved unless unconvolved,
\* multiplied by the area of a data pixel
re_size_convolve(image, unconvolved) ==
    [image EXCEPT !.grid = "data", !.convolved = ~unconvolved,
                  !.factor = FracMul(@, pixel_area)]

\* the collaborator calls of source_surface_brightness: the evaluation of the
\* source light at the coordinates of a numerics, the application of the lens
\* mapping operator, and the resize/convolution by a numerics
Evaluate(numerics) == [fn |-> "SourceModel.surface_brightness", on |-> numerics]
Apply(kl, update_lens) ==
    [fn |-> "lensingOperator.source2image", kl |-> kl, update_lens |-> update_lens]
Resize(numerics) == [fn |-> "re_size_convolve", on |-> numerics]

\* a version that sends the source-plane view through the operator as well
source_surface_brightness_always_lensed(ks, kl, unconvolved, de_lensed, k, update_lens_mapping) ==
    LET source_light == surface_brightness("source", ks, k)
        m == source2image(source_light, kl, update_lens_mapping)
        r == re_size_convolve(IF de_lensed THEN source_light ELSE m.image, unconvolved)
    IN  [raised |-> "none", mapping |-> m.mapping, built |-> m.built,
         calls |-> <<Evaluate("ImageNumerics_source"), Apply(kl, update_lens_mapping),
                     Resize(IF de_lensed THEN "ImageNumerics_source" ELSE "ImageNumerics")>>,
         ret |-> [r EXCEPT !.factor = FracDiv(@, pixel_area)]]

\* a final division by the pixel width instead of the pixel area
source_surface_brightness_by_width(ks, kl, unconvolved, de_lensed, k, update_lens_mapping) ==
    LET source_light == surface_brightness("source", ks, k) IN
    IF de_lensed
    THEN LET r == re_size_convolve(source_light, unconvolved) IN
         [raised |-> "none", mapping |-> lens_mapping, built |-> FALSE,
          calls |-> <<Evaluate("ImageNumerics_source"), Resize("ImageNumerics_source")>>,
          ret |-> [r EXCEPT !.factor = FracDiv(@, Data.pixel_width)]]
    ELSE LET m == source2image(source_light, kl, update_lens_mapping)
             r == re_size_convolve(m.image, unconvolved)
         IN  [raised |-> "none", mapping |-> m.mapping, built |-> m.built,
              calls |-> <<Evaluate("ImageNumerics_source"), Apply(kl, update_lens_mapping),
                          Resize("ImageNumerics")>>,
              ret |-> [r EXCEPT !.factor = FracDiv(@, Data.pixel_width)]]

\* source_surface_brightness: what it returns, the mapping the operator holds
\* afterwards, and whether the operator built one in this call
source_surface_brightness(ks, kl, unconvolved, de_lensed, k, update_lens_mapping) ==
    LET source_light == surface_brightness("source", ks, k) IN
    IF de_lensed
    THEN LET r == re_size_convolve(source_light, unconvolved) IN
         [raised |-> "none", mapping |-> lens_mapping, built |-> FALSE,
          calls |-> <<Evaluate("ImageNumerics_source"), Resize("ImageNumerics_source")>>,
          ret |-> [r EXCEPT !.factor = FracDiv(@, pixel_area)]]
    ELSE LET m == source2image(source_light, kl, update_lens_mapping)
             r == re_size_convolve(m.image, unconvolved)
         IN  [raised |-> "none", mapping |-> m.mapping, built |-> m.built,
              calls |-> <<Evaluate("ImageNumerics_source"), Apply(kl, update_lens_mapping),
                          Resize("ImageNumerics")>>,
              ret |-> [r EXCEPT !.factor = FracDiv(@, pixel_area)]]

\* the component index k of a call: None, or the first profile
Components(n) == {None} \cup {Some(i) : i \in 1..(IF n > 0 THEN 1 ELSE 0)}

SourceSurfaceBrightness ==
    /\ phase = "ready"
    /\ \E unconvolved \in BOOLEAN, de_lensed \in BOOLEAN, update_lens_mapping \in BOOLEAN,
          k \in Components(Len(SourceModel)) :
        \E r \in {source_surface_brightness(kwargs_source, kwargs_lens, unconvolved,
                                            de_lensed, k, update_lens_mapping)} :
        /\ lens_mapping' = r.mapping
        /\ last' = [op |-> "source_surface_brightness", raised |-> r.raised, ret |-> r.ret]
        /\ entry' = [ks |-> kwargs_source, kl |-> kwargs_lens, unconvolved |-> unconvolved,
                     de_lensed |-> de_lensed, k |-> k,
                     update_lens_mapping |-> update_lens_mapping,
                     mapping |-> lens_mapping, built |-> r.built]
        /\ calls' = r.calls
    /\ logL' = NoValue
    /\ printed' = <<>>
    /\ UNCHANGED <<ps_base, phase, Data, subgrid_res_source, SourceModel, LensLightModel,
                   PointSource, sparseSolver, lensingOperator, kwargs_source,
                   kwargs_lens_light, kwargs_ps, psf_error_map, likelihood_mask, kwargs_lens>>

DeconvolutionWarning ==
    "WARNING : sparse solver for lens light does not perform deconvolution of lens light, returning convolved estimate instead"

\* a version that prints its warning in every call
lens_surface_brightness_warn_always(kll, unconvolved, k) ==
    IF IsNone(LensLightModel)
    THEN [raised |-> "AttributeError", printed |-> <<DeconvolutionWarning>>, ret |-> NoValue]
    ELSE [raised |-> "none", printed |-> <<DeconvolutionWarning>>,
          ret |-> [surface_brightness("image", kll, k) EXCEPT !.convolved = TRUE]]

\* lens_surface_brightness: what it prints and the lens light it returns, which
\* is the light of the fitted (convolved) lens-light model whatever unconvolved is
lens_surface_brightness(kll, unconvolved, k) ==
    LET out == IF unconvolved THEN <<DeconvolutionWarning>> ELSE <<>> IN
    IF IsNone(LensLightModel)
    THEN [raised |-> "AttributeError", printed |-> out, ret |-> NoValue]
    ELSE [raised |-> "none", printed |-> out,
          ret |-> [surface_brightness("image", kll, k) EXCEPT !.convolved = TRUE]]

LensSurfaceBrightness ==
    /\ phase = "ready"
    /\ \E unconvolved \in BOOLEAN, k \in Components(NumProfiles(LensLightModel)) :
        \E r \in {lens_surface_brightness(kwargs_lens_light, unconvolved, k)} :
        /\ last' = [op |-> "lens_surface_brightness", raised |-> r.raised, ret |-> r.ret]
        /\ printed' = r.printed
        /\ entry' = [kll |-> kwargs_lens_light, unconvolved |-> unconvolved, k |-> k]
    /\ calls' = <<>>
    /\ logL' = NoValue
    /\ UNCHANGED <<ps_base, phase, Data, subgrid_res_source, SourceModel, LensLightModel,
                   PointSource, sparseSolver, lensingOperator, kwargs_source,
                   kwargs_lens_light, kwargs_ps, psf_error_map, likelihood_mask, lens_mapping, kwargs_lens>>

\* the bundles of a caller that is about to make its first call
FirstBundles ==
    /\ kwargs_lens = "lens_a"
    /\ kwargs_source = [k \in 1..Len(SourceModel) |-> light_kwargs(k, "fresh")]
    /\ kwargs_lens_light =
          IF no_lens_light(LensLightModel) THEN None
          ELSE Some([k \in 1..Len(List(LensLightModel)) |-> light_kwargs(k, "fresh")])
    /\ kwargs_ps =
          IF no_point_sources(PointSource) THEN None
          ELSE Some([k \in 1..Len(List(PointSource)) |-> ps_kwargs(k, "fresh")])
    /\ entry = NoValue
    /\ calls = <<>>
    /\ logL = NoValue

\* an instance whose construction returned, with the bundles of its caller
InitSolve ==
    /\ ReadyInstance(PsfErrorMaps, {FullMask})
    /\ FirstBundles

\* the same for the two brightness views, which read neither the point sources
\* nor the PSF error map: an instance built without a point-source class
InitView ==
    /\ ReadyInstance({"zero"}, {FullMask})
    /\ IsNone(PointSource)
    /\ FirstBundles

----------------------------------------------------------------------------
(* point_source_linear_response_matrix *)

\* what a pixel of a point-source rendering may hold
PixelValues == {NaN, PosInf, Float(2, 0)}

\* the renderings ImageNumerics.point_source_rendering may return: an image of
\* the data grid, finite but for at most one of its first two pixels
Renderings ==
    {[p \in 1..Data.num_pixel |-> IF p = q THEN v ELSE Float(2, 0)] :
        q \in 1..2, v \in PixelValues \ {PosInf}}
    \cup {[p \in 1..Data.num_pixel |-> IF p = 2 THEN PosInf ELSE Float(2, 0)]}

\* self.num_data_evaluate: the number of pixels the mask keeps
num_data_evaluate == Cardinality({p \in DOMAIN likelihood_mask : likelihood_mask[p]})

\* image2array_masked: the pixels the mask keeps, in order
image2array_masked(image) ==
    LET keep == SelectSeq([p \in 1..Len(image) |-> p], LAMBDA p : likelihood_mask[p])
    IN  [j \in 1..Len(keep) |-> image[keep[j]]]

\* a conversion that hands every value back as it is
nan_to_num_identity(x) == x

\* np.nan_to_num on one float: NaN becomes 0.0, an infinity the largest finite
\* float of its sign (1.79769313e308)
nan_to_num(x) ==
    IF x.kind = "nan" THEN Float(0, 0)
    ELSE IF x.kind = "inf" THEN Float(179769313, 300)
    ELSE IF x.kind = "-inf" THEN Float(-179769313, 300)
    ELSE x

\* the amplitude the bundle holds for the i-th linear parameter (1 when it holds none)
StoredAmp(kps, i) ==
    IF IsNone(kps) \/ Len(List(kps)) = 0 THEN 1
    ELSE LET d == List(kps)[IF i <= Len(List(kps)) THEN i ELSE Len(List(kps))]
         IN  IF "point_amp" \in DOMAIN d THEN d["point_amp"] ELSE 1

\* a response set that hands out the stored amplitudes whatever with_amp is
point_source_linear_response_set_stored_amp(kps, num, with_amp) ==
    [num_param |-> num, amp |-> [i \in 1..num |-> StoredAmp(kps, i)]]

\* ImageModel.point_source_linear_response_set for num linear parameters: their
\* number and the amplitude to render each with, 1 unless with_amp
point_source_linear_response_set(kps, num, with_amp) ==
    [num_param |-> num,
     amp |-> [i \in 1..num |-> IF with_amp THEN StoredAmp(kps, i) ELSE 1]]

\* ImageNumerics.point_source_rendering: the image of a point source of amplitude
\* amp, unit its image at amplitude 1
point_source_rendering(unit, amp) ==
    [p \in 1..Len(unit) |->
        IF unit[p].kind = "finite" THEN Float(unit[p].mant * amp, unit[p].exp) ELSE unit[p]]

\* point_source_linear_response_matrix for num_param = Len(images) linear
\* parameters, images[i] the unit-amplitude image at the positions of the i-th:
\* the matrix it returns (every row of the zero matrix A is overwritten by the loop)
point_source_linear_response_matrix(kps, images) ==
    LET set == point_source_linear_response_set(kps, Len(images), FALSE)
        num_param == set.num_param
        num_response == num_data_evaluate
        A == [i \in 1..num_param |->
                image2array_masked(point_source_rendering(images[i], set.amp[i]))]
    IN  [raised |-> "none",
         ret |-> [i \in 1..num_param |-> [j \in 1..num_response |-> nan_to_num(A[i][j])]]]

\* the number of linear point-source parameters is that of the images of the
\* point-source models; there is none without a point-source model
NumParams == IF no_point_sources(PointSource) THEN {0} ELSE 0..MaxParams

PointSourceLinearResponseMatrix ==
    /\ phase = "ready"
    /\ \E n \in NumParams : \E images \in [1..n -> Renderings] :
        \E r \in {point_source_linear_response_matrix(kwargs_ps, images)} :
        /\ last' = [op |-> "point_source_linear_response_matrix", raised |-> r.raised,
                    ret |-> r.ret]
        /\ entry' = [images |-> images, kl |-> kwargs_lens, kps |-> kwargs_ps]
    /\ calls' = <<>>
    /\ logL' = NoValue
    /\ printed' = <<>>
    /\ UNCHANGED <<ps_base, phase, Data, subgrid_res_source, SourceModel, LensLightModel,
                   PointSource, sparseSolver, lensingOperator, kwargs_source,
                   kwargs_lens_light, kwargs_ps, psf_error_map, likelihood_mask,
                   lens_mapping, kwargs_lens>>

\* the data image, and self.data_response, its pixels under the mask
DataImage == [p \in 1..Data.num_pixel |-> 4 + p]
data_response == image2array_masked(DataImage)

\* the sparse models (source and lens light) a caller may pass
SparseModels == {[p \in 1..Data.num_pixel |-> 0], [p \in 1..Data.num_pixel |-> p]}

\* the unit renderings of a point-source solve: finite, or with a NaN in the second pixel
SolveRenderings == {r \in Renderings : r[1] = Float(2, 0) /\ r[2] # PosInf}

\* A.T
Transpose(A, num_response) == [j \in 1..num_response |-> [i \in 1..Len(A) |-> A[i][j]]]

\* what de_lens.get_param_WLS may return for num linear parameters: the
\* amplitudes, their covariance and the model of the masked pixels
WLSOutputs(num) ==
    {[param |-> [i \in 1..num |-> 10 * c + i], cov_param |-> [cov |-> c],
      wls_model |-> [wls |-> c]] : c \in 1..MaxSolverOutputs}

\* update_linear_kwargs_point_source: PointSource.update_linear from index 0
update_linear_kwargs_point_source(param, kl, kps) ==
    IF NumProfiles(PointSource) = 0 THEN kps
    ELSE Some(write_linear(List(kps), NumProfiles(PointSource), "point_amp", param, 0))

\* a solve against the masked data themselves
_image_linear_solve_point_sources_raw_data(sparse_model, kl, kps, images, wls) ==
    LET A == point_source_linear_response_matrix(kps, images).ret
        err == _error_response(kl, kps)
        d == data_response
    IN  [raised |-> "none",
         calls |-> <<[fn |-> "get_param_WLS", A_T |-> Transpose(A, num_data_evaluate),
                      weights |-> [inv |-> err.C_D_response], d |-> d]>>,
         kps |-> update_linear_kwargs_point_source(wls.param, kl, kps),
         ret |-> [model |-> [array_masked2image |-> wls.wls_model],
                  model_error |-> err.model_error,
                  cov_param |-> wls.cov_param, param |-> wls.param]]

\* _image_linear_solve_point_sources with wls what get_param_WLS returns: its
\* call of get_param_WLS, the point-source bundle as it leaves it, and what it returns
_image_linear_solve_point_sources(sparse_model, kl, kps, images, wls) ==
    LET A == point_source_linear_response_matrix(kps, images).ret
        err == _error_response(kl, kps)
        masked == image2array_masked(sparse_model)
        d == [j \in 1..num_data_evaluate |-> data_response[j] - masked[j]]
    IN  [raised |-> "none",
         calls |-> <<[fn |-> "get_param_WLS", A_T |-> Transpose(A, num_data_evaluate),
                      weights |-> [inv |-> err.C_D_response], d |-> d]>>,
         kps |-> update_linear_kwargs_point_source(wls.param, kl, kps),
         ret |-> [model |-> [array_masked2image |-> wls.wls_model],
                  model_error |-> err.model_error,
                  cov_param |-> wls.cov_param, param |-> wls.param]]

\* the solver calls back with its current sparse model; one amplitude per
\* point-source model
ImageLinearSolvePointSources ==
    /\ phase = "ready"
    /\ \E sparse_model \in SparseModels,
          images \in [1..NumProfiles(PointSource) -> SolveRenderings],
          wls \in WLSOutputs(NumProfiles(PointSource)) :
        \E r \in {_image_linear_solve_point_sources(sparse_model, kwargs_lens, kwargs_ps,
                                                    images, wls)} :
        /\ kwargs_ps' = r.kps
        /\ calls' = r.calls
        /\ last' = [op |-> "_image_linear_solve_point_sources", raised |-> r.raised,
                    ret |-> r.ret]
        /\ entry' = [sparse_model |-> sparse_model, images |-> images,
                     kl |-> kwargs_lens, kps |-> kwargs_ps]
    /\ logL' = NoValue
    /\ printed' = <<>>
    /\ UNCHANGED <<ps_base, phase, Data, subgrid_res_source, SourceModel, LensLightModel,
                   PointSource, sparseSolver, lensingOperator, kwargs_source,
                   kwargs_lens_light, psf_error_map, likelihood_mask,
                   lens_mapping, kwargs_lens>>

\* instances that differ in their point sources and in their mask only (the
\* response matrix reads nothing else of the instance), with the caller's bundles
InitResponse ==
    /\ ReadyInstance({"zero"}, LikelihoodMasks)
    /\ SourceModel = <<"STARLETS">>
    /\ IsNone(LensLightModel)
    /\ subgrid_res_source = 1
    /\ FirstBundles

----------------------------------------------------------------------------
(* PSBase *)

\* orchestrator fields and caller bundles while no ImageSparseFit exists
NoInstance ==
    /\ phase = "new"
    /\ Data \in DataValues
    /\ subgrid_res_source = 1
    /\ SourceModel = <<>>
    /\ LensLightModel = None
    /\ PointSource = None
    /\ sparseSolver = "unset"
    /\ lensingOperator = "unset"
    /\ kwargs_lens = "lens_a"
    /\ kwargs_source = <<>>
    /\ kwargs_lens_light = None
    /\ kwargs_ps = None
    /\ calls = <<>>
    /\ logL = NoValue
    /\ last = Idle
    /\ psf_error_map = "zero"
    /\ likelihood_mask = FullMask
    /\ lens_mapping = NoValue
    /\ printed = <<>>

\* the lens_model arguments: None or a LensModel instance
LensModels == {None} \cup {Some(m) : m \in LensValues}

LensEquationSolver(lens_model) == [LensEquationSolver |-> List(lens_model)]

\* index_lens_model_list: None, or one list of lens-model indices per band
IndexLensModelLists ==
    {None, Some(<< <<0>> >>), Some(<< <<0>>, <<1, 0>> >>), Some(<< <<0>>, <<2, 3>>, <<1>> >>)}

\* point_source_frame_list: None, or the band of each image
PointSourceFrameLists ==
    {None} \cup {Some(l) : l \in SeqsUpTo(-1..2, MaxFrames) \cup {<<1, 2, 0, 1>>}}

\* l[i] of a Python list: i counts from 0, a negative i from the end
InRange(l, i) == -Len(l) <= i /\ i < Len(l)
PyIndex(l, i) == IF i >= 0 THEN l[i + 1] ELSE l[Len(l) + i + 1]

\* a k_list that takes the i-th band for the i-th image
make_k_list_by_position(index_lens_model_list, point_source_frame_list) ==
    IF IsNone(index_lens_model_list) THEN [raised |-> "none", k_list |-> None]
    ELSE IF IsNone(point_source_frame_list) THEN [raised |-> "TypeError", k_list |-> NoValue]
    ELSE LET ill == List(index_lens_model_list)
             pfl == List(point_source_frame_list)
         IN  IF \E i \in 1..Len(pfl) : ~InRange(ill, pfl[i])
             THEN [raised |-> "IndexError", k_list |-> NoValue]
             ELSE [raised |-> "none",
                   k_list |-> Some([i \in 1..Len(pfl) |-> PyIndex(ill, (i - 1) % Len(ill))])]

\* lines 42-48 of PSBase.__init__: iterating None raises TypeError, a frame
\* outside the bands IndexError
make_k_list(index_lens_model_list, point_source_frame_list) ==
    IF IsNone(index_lens_model_list) THEN [raised |-> "none", k_list |-> None]
    ELSE IF IsNone(point_source_frame_list) THEN [raised |-> "TypeError", k_list |-> NoValue]
    ELSE LET ill == List(index_lens_model_list)
             pfl == List(point_source_frame_list)
         IN  IF \E i \in 1..Len(pfl) : ~InRange(ill, pfl[i])
             THEN [raised |-> "IndexError", k_list |-> NoValue]
             ELSE [raised |-> "none",
                   k_list |-> Some([i \in 1..Len(pfl) |-> PyIndex(ill, pfl[i])])]

\* PSBase.__init__: the fields it leaves, or what it raised
PSBase_init(lens_model, index_lens_model_list, point_source_frame_list) ==
    LET k == make_k_list(index_lens_model_list, point_source_frame_list) IN
    IF k.raised # "none"
    THEN [raised |-> k.raised, _lens_model |-> NoValue, _solver |-> NoValue,
          k_list |-> NoValue]
    ELSE [raised |-> "none", _lens_model |-> lens_model,
          _solver |-> IF IsNone(lens_model) THEN None ELSE LensEquationSolver(lens_model),
          k_list |-> k.k_list]

\* an update that keeps a solver once there is one
update_lens_model_keep_solver(lens_model_class) ==
    [_lens_model |-> lens_model_class,
     _solver |-> IF IsNone(lens_model_class) THEN None
                 ELSE IF _solver = None THEN LensEquationSolver(lens_model_class)
                 ELSE _solver]

\* PSBase.update_lens_model
update_lens_model(lens_model_class) ==
    [_lens_model |-> lens_model_class,
     _solver |-> IF IsNone(lens_model_class) THEN None
                 ELSE LensEquationSolver(lens_model_class)]

PSBaseConstruct ==
    /\ NoPSBase
    /\ \E lens_model \in LensModels, index_lens_model_list \in IndexLensModelLists,
          point_source_frame_list \in PointSourceFrameLists :
        \E r \in {PSBase_init(lens_model, index_lens_model_list, point_source_frame_list)} :
        /\ _lens_model' = r._lens_model
        /\ _solver' = r._solver
        /\ k_list' = r.k_list
        /\ last' = [op |-> "PSBase.__init__", raised |-> r.raised, ret |-> NoValue]
        /\ entry' = [lens_model |-> lens_model,
                     index_lens_model_list |-> index_lens_model_list,
                     point_source_frame_list |-> point_source_frame_list]
    /\ UNCHANGED <<phase, Data, subgrid_res_source, SourceModel, LensLightModel,
                   PointSource, sparseSolver, lensingOperator, kwargs_lens, kwargs_source,
                   kwargs_lens_light, kwargs_ps, calls, logL, psf_error_map,
                   likelihood_mask, lens_mapping, printed>>

UpdateLensModel ==
    /\ ~NoPSBase
    /\ \E lens_model_class \in LensModels :
        \E r \in {update_lens_model(lens_model_class)} :
        /\ _lens_model' = r._lens_model
        /\ _solver' = r._solver
        /\ last' = [op |-> "update_lens_model", raised |-> "none", ret |-> NoValue]
        /\ entry' = [lens_model_class |-> lens_model_class]
    /\ UNCHANGED <<phase, Data, subgrid_res_source, SourceModel, LensLightModel,
                   PointSource, sparseSolver, lensingOperator, kwargs_lens, kwargs_source,
                   kwargs_lens_light, kwargs_ps, calls, logL, psf_error_map,
                   likelihood_mask, lens_mapping, printed, k_list>>

InitPSBase == NoInstance /\ NoPSBase /\ entry = NoValue

----------------------------------------------------------------------------
(* _expand_to_array and _shrink_array *)

\* a number, for which np.isscalar holds, or an array
Scalar(v) == [isscalar |-> TRUE, x |-> v]
Array(l) == [isscalar |-> FALSE, v |-> l]

ArrayInputs == {Scalar(v) : v \in 1..2} \cup {Array(l) : l \in SeqsUpTo(1..2, MaxLen)}

\* _expand_to_array
_expand_to_array(array, num) ==
    IF array.isscalar
    THEN [raised |-> "none", ret |-> Array([i \in 1..num |-> 1 * array.x])]
    ELSE IF Len(array.v) < num
    THEN [raised |-> "none",
          ret |-> Array([i \in 1..num |-> IF i <= Len(array.v) THEN array.v[i] ELSE 0])]
    ELSE [raised |-> "none", ret |-> array]

\* a shrink that hands back an array that is too short
_shrink_array_lenient(array, num) ==
    IF array.isscalar THEN [raised |-> "none", ret |-> array]
    ELSE IF Len(array.v) > num
    THEN [raised |-> "none", ret |-> Array(SubSeq(array.v, 1, num))]
    ELSE [raised |-> "none", ret |-> array]

\* _shrink_array
_shrink_array(array, num) ==
    IF array.isscalar THEN [raised |-> "none", ret |-> array]
    ELSE IF Len(array.v) > num
    THEN [raised |-> "none", ret |-> Array(SubSeq(array.v, 1, num))]
    ELSE IF Len(array.v) < num
    THEN [raised |-> "ValueError", ret |-> NoValue]
    ELSE [raised |-> "none", ret |-> array]

ExpandToArray ==
    /\ "array" \in DOMAIN entry
    /\ \E r \in {_expand_to_array(entry.array, entry.num)} :
        last' = [op |-> "_expand_to_array", raised |-> r.raised, ret |-> r.ret]
    /\ UNCHANGED <<ps_base, phase, Data, subgrid_res_source, SourceModel, LensLightModel,
                   PointSource, sparseSolver, lensingOperator, kwargs_lens, kwargs_source,
                   kwargs_lens_light, kwargs_ps, calls, logL, psf_error_map,
                   likelihood_mask, lens_mapping, printed, entry>>

ShrinkArray ==
    /\ "array" \in DOMAIN entry
    /\ \E r \in {_shrink_array(entry.array, entry.num)} :
        last' = [op |-> "_shrink_array", raised |-> r.raised, ret |-> r.ret]
    /\ UNCHANGED <<ps_base, phase, Data, subgrid_res_source, SourceModel, LensLightModel,
                   PointSource, sparseSolver, lensingOperator, kwargs_lens, kwargs_source,
                   kwargs_lens_light, kwargs_ps, calls, logL, psf_error_map,
                   likelihood_mask, lens_mapping, printed, entry>>

\* the arguments of one call
InitArrays ==
    /\ NoInstance
    /\ NoPSBase
    /\ entry \in [array : ArrayInputs, num : 0..MaxLen]

----------------------------------------------------------------------------
(* MultiGaussianEllipseKappa *)

\* the coordinates: a number or an array (y, e1 and e2 are passed on like center_x)
Coordinates == {Scalar(0), Array(<<1>>), Array(<<0, 2>>)}

\* the values of x, and an array or number of the shape of x holding vals
Points(x) == IF x.isscalar THEN <<x.x>> ELSE x.v
Shaped(x, vals) == IF x.isscalar THEN Scalar(vals[1]) ELSE Array(vals)

\* what GaussianEllipseKappa returns at one coordinate for one Gaussian:
\* "function" and "density_2d" one number, derivatives (f_x, f_y), hessian
\* (f_xx, f_xy, f_yx, f_yy) with f_yx = f_xy; the numbers stand for its floats
Weight(c) ==
    CASE c = "function" -> 1 [] c = "f_x" -> 2 [] c = "f_y" -> 3 [] c = "f_xx" -> 4
      [] c = "f_xy" -> 5 [] c = "f_yx" -> 5 [] c = "f_yy" -> 6 [] c = "density_2d" -> 7
gaussian_ellipse_kappa(c, xv, amp, sigma, center_x) ==
    amp * (sigma * sigma + xv - center_x) + Weight(c) * sigma

\* a loop in which each Gaussian overwrites the result
RECURSIVE accumulate_overwrite(_, _, _, _, _, _)
accumulate_overwrite(c, x, amp, sigma, center_x, n) ==
    IF n = 0 THEN [p \in 1..Len(Points(x)) |-> 0]
    ELSE [p \in 1..Len(Points(x)) |->
             gaussian_ellipse_kappa(c, Points(x)[p], amp[n], sigma[n], center_x)]

\* np.zeros_like(x) and the first n rounds of the loop over range(len(amp)),
\* for component c of what GaussianEllipseKappa returns
RECURSIVE accumulate(_, _, _, _, _, _)
accumulate(c, x, amp, sigma, center_x, n) ==
    IF n = 0 THEN [p \in 1..Len(Points(x)) |-> 0]
    ELSE LET acc == accumulate(c, x, amp, sigma, center_x, n - 1) IN
         [p \in 1..Len(Points(x)) |->
             acc[p] + gaussian_ellipse_kappa(c, Points(x)[p], amp[n], sigma[n], center_x)]

Summed(c, x, amp, sigma, center_x) ==
    Shaped(x, accumulate(c, x, amp, sigma, center_x, Len(amp)))

function(x, amp, sigma, center_x) == Summed("function", x, amp, sigma, center_x)

derivatives(x, amp, sigma, center_x) ==
    <<Summed("f_x", x, amp, sigma, center_x), Summed("f_y", x, amp, sigma, center_x)>>

\* the third entry is f_xy again: the f_yx of the Gaussians is dropped
hessian(x, amp, sigma, center_x) ==
    LET f_xx == Summed("f_xx", x, amp, sigma, center_x)
        f_yy == Summed("f_yy", x, amp, sigma, center_x)
        f_xy == Summed("f_xy", x, amp, sigma, center_x)
    IN  <<f_xx, f_xy, f_xy, f_yy>>

density_2d(x, amp, sigma, center_x) == Summed("density_2d", x, amp, sigma, center_x)

\* one call on the arguments drawn at the start
Evaluated(op, ret) ==
    /\ "amp" \in DOMAIN entry
    /\ last' = [op |-> op, raised |-> "none", ret |-> ret]
    /\ UNCHANGED <<ps_base, phase, Data, subgrid_res_source, SourceModel, LensLightModel,
                   PointSource, sparseSolver, lensingOperator, kwargs_lens, kwargs_source,
                   kwargs_lens_light, kwargs_ps, calls, logL, psf_error_map,
                   likelihood_mask, lens_mapping, printed, entry>>

Function == Evaluated("function", function(entry.x, entry.amp, entry.sigma, entry.center_x))
Derivatives ==
    Evaluated("derivatives", derivatives(entry.x, entry.amp, entry.sigma, entry.center_x))
Hessian == Evaluated("hessian", hessian(entry.x, entry.amp, entry.sigma, entry.center_x))
Density2d ==
    Evaluated("density_2d", density_2d(entry.x, entry.amp, entry.sigma, entry.center_x))

\* amp and sigma of equal length
InitGauss ==
    /\ NoInstance
    /\ NoPSBase
    /\ \E n \in 0..MaxGauss :
          entry \in [x : Coordinates, amp : [1..n -> 1..2], sigma : [1..n -> 1..2],
                     center_x : {0, 1}]

----------------------------------------------------------------------------
(* Properties of construction, checked under SpecInit *)

Starlets == {"STARLETS", "STARLETS_GEN2"}
SingleStarlet(l) == Len(l) = 1 /\ l[1] \in Starlets
HasLensLight == ~IsNone(LensLightModel) /\ List(LensLightModel) # <<>>
HasPointSources == ~IsNone(PointSource) /\ List(PointSource) # <<>>
SolverVariants == {"SparseSolverSource", "SparseSolverSourceLens", "SparseSolverSourcePS"}

\* C1: construction with a non-empty lens-light list and a non-empty point-source
\* list raises; it never completes, with or without a solver bound
C1_BothPresentRaises ==
    (last.op = "__init__" /\ HasLensLight /\ HasPointSources)
        => (phase = "failed" /\ last.raised # "none")

\* C2: after every construction that returned, exactly one solver variant is bound,
\* and it is the one the non-empty lists select
C2_OneVariantBound ==
    phase = "ready" =>
        /\ sparseSolver \in SolverVariants
        /\ (~HasLensLight /\ ~HasPointSources) => sparseSolver = "SparseSolverSource"
        /\ (HasLensLight /\ ~HasPointSources) => sparseSolver = "SparseSolverSourceLens"
        /\ (~HasLensLight /\ HasPointSources) => sparseSolver = "SparseSolverSourcePS"

\* C3: without lens light and point sources, construction returns (with the
\* source-only solver) when the source list is one starlet profile, and otherwise
\* raises ValueError with no solver and no lensing operator created
C3_SourceOnlyNeedsSingleStarlet ==
    (last.op = "__init__" /\ ~HasLensLight /\ ~HasPointSources) =>
        IF SingleStarlet(SourceModel)
        THEN phase = "ready" /\ last.raised = "none" /\ sparseSolver = "SparseSolverSource"
        ELSE /\ phase = "failed"
             /\ last.raised = "ValueError"
             /\ sparseSolver = "unset"
             /\ lensingOperator = "unset"

C3_Witness ==
    /\ last.op = "__init__"
    /\ ~HasLensLight /\ ~HasPointSources
    /\ Len(SourceModel) = 2 /\ SourceModel[1] = "STARLETS_GEN2"
    /\ last.raised = "ValueError"

\* C4: with lens light and without point sources, construction returns only when
\* the source list and the lens-light list are each one starlet profile, and
\* raises otherwise
C4_LensLightModeNeedsBothStarlets ==
    (last.op = "__init__" /\ HasLensLight /\ ~HasPointSources) =>
        IF SingleStarlet(SourceModel) /\ SingleStarlet(List(LensLightModel))
        THEN phase = "ready" /\ sparseSolver = "SparseSolverSourceLens"
        ELSE phase = "failed" /\ last.raised # "none"

----------------------------------------------------------------------------
(* Properties of the calls, checked under Spec *)

\* dict d has key k with value v
Has(d, k, v) == k \in DOMAIN d /\ d[k] = v

Solved == last.op = "image_sparse_solve" /\ last.raised = "none"
Solves == {"image_sparse_solve", "likelihood_data_given_model"}
CallNames == [i \in 1..Len(calls) |-> calls[i].fn]
StepOrder == <<"_error_response", "point_source", "sparseSolver.solve",
               "update_fixed_param", "update_linear_kwargs">>

\* C5: likelihood_data_given_model returns the penalty -1e20 when the data
\* log-likelihood is NaN, +inf or -inf, returns it unchanged when it is finite,
\* and does not raise once the log-likelihood is computed
C5_NonFinitePenalty ==
    (last.op = "likelihood_data_given_model" /\ logL # NoValue) =>
        /\ last.raised = "none"
        /\ logL.kind \in {"nan", "inf", "-inf"} => last.ret = Float(-1, 20)
        /\ logL.kind = "finite" => last.ret = logL

C5_Witness ==
    /\ last.op = "likelihood_data_given_model"
    /\ logL = NaN
    /\ last.ret = Float(-1, 20)

\* C6: a solve calls, in this order, the noise model, the initial point-source
\* image, the solver (once), and only then the write-back; a call that raises
\* stops somewhere along this order, and a call that returns went through all of it
C6_StepOrder ==
    last.op \in Solves =>
        /\ Len(calls) <= Len(StepOrder)
        /\ CallNames = SubSeq(StepOrder, 1, Len(calls))
        /\ last.raised = "none" => CallNames = StepOrder

C6_Witness ==
    /\ Solved
    /\ Len(calls) = 5
    /\ calls[3].fn = "sparseSolver.solve"
    /\ calls[5].fn = "update_linear_kwargs"

\* C7: after image_sparse_solve returns, the caller's source, lens-light and
\* point-source bundles hold the coefficient blocks the solver returned, and the
\* third returned value is the solver's coefficient vector
C7_BundlesHoldCoefficients ==
    Solved =>
        LET param == calls[3].ret.param
            ns == Len(SourceModel)
            nl == IF HasLensLight THEN Len(List(LensLightModel)) ELSE 0
            np == IF HasPointSources THEN Len(List(PointSource)) ELSE 0
        IN  /\ last.ret.param = param
            /\ \A k \in 1..ns : Has(kwargs_source[k], "amp", param[k])
            /\ \A k \in 1..nl : Has(List(kwargs_lens_light)[k], "amp", param[ns + k])
            /\ \A k \in 1..np : Has(List(kwargs_ps)[k], "point_amp", param[ns + nl + k])

C7_Witness ==
    /\ Solved
    /\ HasPointSources
    /\ Len(SourceModel) = 2
    /\ Has(entry.ks[2], "amp", 0)
    /\ Has(kwargs_source[2], "amp", calls[3].ret.param[2])
    /\ Has(List(kwargs_ps)[1], "point_amp", calls[3].ret.param[3])

Geometry == {"n_pixels", "scale", "center_x", "center_y"}

\* the keys of dict d outside the set keys are the keys of dict e outside it, with
\* the same values
SameExcept(d, e, keys) ==
    /\ (DOMAIN d) \ keys = (DOMAIN e) \ keys
    /\ \A x \in (DOMAIN d) \ keys : d[x] = e[x]

\* list l is list m up to the keys first of its first dict and rest of the others
ListSameExcept(l, m, first, rest) ==
    /\ Len(l) = Len(m)
    /\ \A k \in 1..Len(l) : SameExcept(l[k], m[k], IF k = 1 THEN first ELSE rest)

OptSameExcept(l, m, first, rest) ==
    IF IsNone(l) \/ IsNone(m) THEN l = m
    ELSE ListSameExcept(List(l), List(m), first, rest)

\* C8 as stated: after a solve every entry that is not linear, center_x and
\* center_y included, has the value it had before the call
C8_OnlyLinearEntriesChange ==
    (last.op \in Solves /\ last.raised = "none") =>
        /\ ListSameExcept(kwargs_source, entry.ks, {"amp"}, {"amp"})
        /\ OptSameExcept(kwargs_lens_light, entry.kll, {"amp"}, {"amp"})
        /\ OptSameExcept(kwargs_ps, entry.kps, {"point_amp"}, {"point_amp"})

\* C8 amended: after a solve every entry has the value it had before the call,
\* except the linear entries and the n_pixels, scale, center_x and center_y of
\* the first source profile and of the first lens-light profile
C8_OnlyLinearAndGeometryChange ==
    (last.op \in Solves /\ last.raised = "none") =>
        /\ ListSameExcept(kwargs_source, entry.ks, {"amp"} \cup Geometry, {"amp"})
        /\ OptSameExcept(kwargs_lens_light, entry.kll, {"amp"} \cup Geometry, {"amp"})
        /\ OptSameExcept(kwargs_ps, entry.kps, {"point_amp"}, {"point_amp"})

C8_Witness ==
    /\ Solved
    /\ Len(kwargs_source) = 2
    /\ Has(entry.ks[1], "center_x", 1) /\ Has(kwargs_source[1], "center_x", 0)
    /\ Has(entry.ks[2], "center_x", 1) /\ Has(kwargs_source[2], "center_x", 1)
    /\ Has(kwargs_source[1], "n_scales", entry.ks[1]["n_scales"])

\* dict d holds the geometry of a grid of n pixels of size w / sub, centred at 0
CurrentGeometry(d, n, w, sub) ==
    /\ Geometry \subseteq DOMAIN d
    /\ d["n_pixels"] = n
    /\ d["scale"][1] * w[2] * sub = w[1] * d["scale"][2]
    /\ d["center_x"] = 0 /\ d["center_y"] = 0

BundlesCurrent(ks, kll) ==
    /\ ks # <<>>
    /\ CurrentGeometry(ks[1], Data.num_pixel * subgrid_res_source * subgrid_res_source,
                       Data.pixel_width, subgrid_res_source)
    /\ (~IsNone(kll) /\ List(kll) # <<>>)
          => CurrentGeometry(List(kll)[1], Data.num_pixel, Data.pixel_width, 1)

\* C9 as stated: whenever the solver is invoked, the bundles it is given hold the
\* current grid geometry
C9_GeometryBeforeSolve ==
    \A i \in 1..Len(calls) :
        calls[i].fn = "sparseSolver.solve" => BundlesCurrent(calls[i].ks, calls[i].kll)

\* C9 amended: the solver is given the bundles as the caller passed them; the
\* geometry is rewritten after the solver has returned, so that the write-back of
\* the coefficients and the caller, once the call returns, see the current geometry
C9_GeometryAfterSolve ==
    last.op \in Solves =>
        /\ \A i \in 1..Len(calls) :
              /\ calls[i].fn = "sparseSolver.solve"
                    => calls[i].ks = entry.ks /\ calls[i].kll = entry.kll
              /\ calls[i].fn = "update_fixed_param"
                    => \E j \in 1..(i - 1) : calls[j].fn = "sparseSolver.solve"
              /\ calls[i].fn = "update_linear_kwargs"
                    => BundlesCurrent(calls[i].ks, calls[i].kll)
        /\ last.raised = "none" => BundlesCurrent(kwargs_source, kwargs_lens_light)

C9_Witness ==
    /\ Solved
    /\ HasLensLight
    /\ "n_pixels" \notin DOMAIN calls[3].ks[1]
    /\ Has(List(calls[3].kll)[1], "n_pixels", 1)
    /\ BundlesCurrent(kwargs_source, kwargs_lens_light)

\* C10: applying update_fixed_param to the bundles an application of it produced
\* changes no entry of either bundle
C10_UpdateFixedParamIdempotent ==
    (last.op = "update_fixed_param" /\ last.raised = "none") =>
        LET again == update_fixed_param(kwargs_source, kwargs_lens_light) IN
        /\ again.raised = "none"
        /\ again.ks = kwargs_source
        /\ again.kll = kwargs_lens_light

C10_Witness ==
    /\ last.op = "update_fixed_param" /\ last.raised = "none"
    /\ subgrid_res_source = 2
    /\ HasLensLight
    /\ Has(entry.ks[1], "n_pixels", 1)
    /\ Has(kwargs_source[1], "n_pixels", 16)
    /\ Has(kwargs_source[1], "scale", <<3, 2>>)
    /\ Has(List(kwargs_lens_light)[1], "scale", <<3, 1>>)

\* C21: when update_fixed_param returns, the first source dict holds the pixel
\* count and pixel size of the supersampled source grid and the centre (0, 0); a
\* non-empty lens-light list holds in its first dict those of the data grid; a
\* lens-light bundle that is None or empty is as it was; and every other key of
\* every dict is as it was
C21_FixedParamWritten ==
    (last.op = "update_fixed_param" /\ last.raised = "none") =>
        /\ BundlesCurrent(kwargs_source, kwargs_lens_light)
        /\ last.ret = [ks |-> kwargs_source, kll |-> kwargs_lens_light]
        /\ ListSameExcept(kwargs_source, entry.ks, Geometry, {})
        /\ OptSameExcept(kwargs_lens_light, entry.kll, Geometry, {})
        /\ (IsNone(entry.kll) \/ List(entry.kll) = <<>>) => kwargs_lens_light = entry.kll

\* an update on a supersampled instance of stale two-profile bundles
C21_Witness ==
    /\ last.op = "update_fixed_param" /\ last.raised = "none"
    /\ subgrid_res_source = 2
    /\ Len(kwargs_source) = 2
    /\ Has(entry.ks[1], "scale", <<7, 1>>)
    /\ Has(kwargs_source[1], "n_pixels", 16)
    /\ Has(kwargs_source[2], "scale", <<7, 1>>)
    /\ ~IsNone(kwargs_lens_light) /\ List(kwargs_lens_light) # <<>>
    /\ Has(List(kwargs_lens_light)[1], "n_pixels", 4)

----------------------------------------------------------------------------
(* Properties of the brightness views, checked under SpecView *)

\* the last call was a source_surface_brightness with de_lensed=False
Lensed ==
    /\ last.op = "source_surface_brightness"
    /\ last.raised = "none"
    /\ ~entry.de_lensed

\* C11: a source_surface_brightness call with de_lensed=False and
\* update_lens_mapping=True applies a mapping built for the lens parameters of
\* that call: the operator then holds that mapping and the returned image went
\* through it, whatever mapping the operator held before
C11_AppliedMappingIsOfThisCall ==
    (Lensed /\ entry.update_lens_mapping) =>
        /\ entry.built
        /\ lens_mapping # NoValue
        /\ lens_mapping.built_for = entry.kl
        /\ last.ret.through = entry.kl

\* such a call on an operator that held a mapping for other lens parameters
C11_Witness ==
    /\ Lensed
    /\ entry.update_lens_mapping
    /\ entry.mapping # NoValue
    /\ entry.mapping.built_for # entry.kl
    /\ last.ret.through = entry.kl

\* C12: a source_surface_brightness call with de_lensed=False and
\* update_lens_mapping=False on an operator that holds a mapping applies that
\* mapping and leaves it as it was: nothing is built, and the image went through
\* the mapping of the last build even when the call's lens parameters are others
C12_ReuseKeepsLastBuild ==
    (Lensed /\ ~entry.update_lens_mapping /\ entry.mapping # NoValue) =>
        /\ ~entry.built
        /\ lens_mapping = entry.mapping
        /\ last.ret.through = entry.mapping.built_for

\* a reuse in a call whose lens parameters differ from those of the last build
C12_Witness ==
    /\ Lensed
    /\ ~entry.update_lens_mapping
    /\ entry.mapping # NoValue
    /\ entry.mapping.built_for # entry.kl
    /\ lens_mapping = entry.mapping
    /\ last.ret.through # entry.kl

\* what the call just made returns when it is made with update_lens_mapping=True
RebuiltOutput ==
    source_surface_brightness(entry.ks, entry.kl, entry.unconvolved, FALSE, entry.k, TRUE).ret

NumPixels(grid) ==
    IF grid = "source"
    THEN Data.num_pixel * subgrid_res_source * subgrid_res_source
    ELSE Data.num_pixel
PixelArea(grid) ==
    IF grid = "source"
    THEN FracMul(TrueDiv(Data.pixel_width, subgrid_res_source),
                 TrueDiv(Data.pixel_width, subgrid_res_source))
    ELSE pixel_area

\* total flux of a vector, in units of the mean surface brightness of its light
TotalFlux(v) == FracMul(FracMul(v.factor, <<NumPixels(v.grid), 1>>), PixelArea(v.grid))

C15_UnconvolvedOnlyWarns ==
    last.op = "lens_surface_brightness" =>
        /\ printed = IF entry.unconvolved THEN <<DeconvolutionWarning>> ELSE <<>>
        /\ last.raised = IF IsNone(LensLightModel) THEN "AttributeError" ELSE "none"
        /\ last.raised = "none" =>
              /\ last.ret = lens_surface_brightness(entry.kll, FALSE, entry.k).ret
              /\ last.ret.convolved

\* a call with unconvolved=True that returned
C15_Witness ==
    /\ last.op = "lens_surface_brightness"
    /\ entry.unconvolved
    /\ last.raised = "none"
    /\ last.ret.convolved
    /\ printed = <<DeconvolutionWarning>>

\* the applications of the lens mapping operator in the last call
Applications == {i \in DOMAIN calls : calls[i].fn = "lensingOperator.source2image"}

\* C22: a source_surface_brightness call evaluates the source light at the
\* coordinates of the source-plane numerics; with de_lensed=True it never applies
\* the lens mapping operator, leaves the mapping the operator holds as it was and
\* resizes on the source-plane numerics; with de_lensed=False it applies the
\* operator exactly once and resizes on the image-plane numerics
C22_DeLensedBypassesOperator ==
    (last.op = "source_surface_brightness" /\ last.raised = "none") =>
        /\ calls[1] = Evaluate("ImageNumerics_source")
        /\ IF entry.de_lensed
           THEN /\ Applications = {}
                /\ lens_mapping = entry.mapping
                /\ ~entry.built
                /\ calls[Len(calls)] = Resize("ImageNumerics_source")
           ELSE /\ Cardinality(Applications) = 1
                /\ calls[Len(calls)] = Resize("ImageNumerics")

\* a source-plane view asked with update_lens_mapping=True for lens parameters
\* other than those of the mapping the operator holds
C22_Witness ==
    /\ last.op = "source_surface_brightness" /\ last.raised = "none"
    /\ entry.de_lensed
    /\ entry.update_lens_mapping
    /\ entry.mapping # NoValue
    /\ entry.mapping.built_for # entry.kl
    /\ lens_mapping = entry.mapping

----------------------------------------------------------------------------
(* Properties of the solves under changing lens parameters and PSF error maps,
   checked under SpecSolve *)

\* source + point-source mode on a PSF whose error map is not all zero
UnsupportedErrorMap == HasPointSources /\ ~HasLensLight /\ psf_error_map # "zero"
SolveOps == {"image_sparse_solve", "likelihood_data_given_model"}

\* C16, as stated: in source + point-source mode with a non-zero PSF error map
\* every operation that completes emits the warning, construction and each solve
C16_WarnsEveryTime ==
    (UnsupportedErrorMap /\ last.op \in {"__init__"} \cup SolveOps /\ last.raised = "none") =>
        printed = <<PsfWarning>>

\* C16, amended: construction emits the warning once, exactly for that mode and
\* such an error map, and returns; the solves on the instance emit nothing
C16_WarnsOncePerInstance ==
    /\ last.op = "__init__" =>
          /\ last.raised = "none"
          /\ printed = IF UnsupportedErrorMap THEN <<PsfWarning>> ELSE <<>>
    /\ last.op \in SolveOps => printed = <<>>

\* a solve that returned on an instance whose construction warned
C16_Witness ==
    /\ UnsupportedErrorMap
    /\ init_printed(LensLightModel, PointSource, psf_error_map) = <<PsfWarning>>
    /\ last.op = "image_sparse_solve"
    /\ last.raised = "none"
    /\ printed = <<>>

\* C18: the model error an image_sparse_solve returns is the one _error_response
\* computed in that call, first of all, from the lens and point-source parameters
\* that call was given
C18_NoiseModelOfThisCall ==
    (last.op = "image_sparse_solve" /\ last.raised = "none") =>
        /\ calls[1].fn = "_error_response"
        /\ calls[1].ret.model_error = [lens |-> entry.kl, ps |-> entry.kps]
        /\ last.ret.model_error = [lens |-> entry.kl, ps |-> entry.kps]

\* a solve with other lens parameters than the first, on bundles that carry the
\* coefficients of an earlier solve
C18_Witness ==
    /\ last.op = "image_sparse_solve"
    /\ last.raised = "none"
    /\ entry.kl = "lens_b"
    /\ Len(entry.ks) > 0
    /\ "amp" \in DOMAIN entry.ks[1]
    /\ last.ret.model_error.lens = "lens_b"

\* C20: in a likelihood_data_given_model call the noise model, the point-source
\* image and the solver receive the point-source bundle the caller passed
C20_LikelihoodPassesPointSources ==
    last.op = "likelihood_data_given_model" =>
        \A i \in DOMAIN calls :
            calls[i].fn \in {"_error_response", "point_source", "sparseSolver.solve"} =>
                calls[i].kps = entry.kps

----------------------------------------------------------------------------
(* Properties of the point-source response matrix, checked under SpecResponse *)

\* the rows of the renderings as the mask leaves them
MaskedRenderings == [i \in 1..Len(entry.images) |-> image2array_masked(entry.images[i])]

\* C17: point_source_linear_response_matrix returns, without raising, a matrix
\* with one row per linear parameter (none for zero parameters) that holds no
\* NaN: where a rendering has a NaN the response is zero, and a finite response
\* is kept as it is
C17_ResponseMatrixHasNoNaN ==
    last.op = "point_source_linear_response_matrix" =>
        /\ last.raised = "none"
        /\ Len(last.ret) = Len(entry.images)
        /\ \A i \in 1..Len(last.ret) :
              /\ Len(last.ret[i]) = num_data_evaluate
              /\ \A j \in 1..Len(last.ret[i]) :
                    /\ last.ret[i][j] # NaN
                    /\ MaskedRenderings[i][j] = NaN => last.ret[i][j] = Float(0, 0)
                    /\ MaskedRenderings[i][j].kind = "finite" =>
                          last.ret[i][j] = MaskedRenderings[i][j]

\* a matrix of a rendering with a NaN in a pixel the mask keeps
C17_Witness ==
    /\ last.op = "point_source_linear_response_matrix"
    /\ last.raised = "none"
    /\ \E i \in 1..Len(last.ret) : \E j \in 1..Len(last.ret[i]) :
          /\ MaskedRenderings[i][j] = NaN
          /\ last.ret[i][j] = Float(0, 0)

\* the masked data minus the masked sparse model of the last call
Residual ==
    [j \in 1..num_data_evaluate |->
        data_response[j] - image2array_masked(entry.sparse_model)[j]]

\* C24: _image_linear_solve_point_sources hands get_param_WLS, once, the
\* transposed response matrix, the weights 1/C_D_response of this call's noise
\* model and the residual of the masked data and the masked sparse model; the
\* amplitudes it gets are in the caller's point-source bundle when it returns,
\* nothing else of the bundle has changed, and it returns (model, model_error,
\* cov_param, param) with these amplitudes
C24_SolvesAgainstResidual ==
    (last.op = "_image_linear_solve_point_sources" /\ last.raised = "none") =>
        /\ Len(calls) = 1
        /\ calls[1].fn = "get_param_WLS"
        /\ calls[1].d = Residual
        /\ calls[1].weights = [inv |-> _error_response(entry.kl, entry.kps).C_D_response]
        /\ calls[1].A_T =
              Transpose(point_source_linear_response_matrix(entry.kps, entry.images).ret,
                        num_data_evaluate)
        /\ DOMAIN last.ret = {"model", "model_error", "cov_param", "param"}
        /\ last.ret.model_error = _error_response(entry.kl, entry.kps).model_error
        /\ OptSameExcept(kwargs_ps, entry.kps, {"point_amp"}, {"point_amp"})
        /\ \A k \in 1..NumProfiles(PointSource) :
              Has(List(kwargs_ps)[k], "point_amp", last.ret.param[k])

\* a solve with a sparse model that is not zero, under a mask, for two point sources
C24_Witness ==
    /\ last.op = "_image_linear_solve_point_sources" /\ last.raised = "none"
    /\ NumProfiles(PointSource) = 2
    /\ likelihood_mask # FullMask
    /\ calls[1].d = Residual
    /\ Residual # data_response
    /\ Has(List(kwargs_ps)[2], "point_amp", last.ret.param[2])

\* C30: the matrix point_source_linear_response_matrix returns has one row per
\* linear amplitude and one column per pixel the likelihood mask keeps, and row i
\* is the masked unit-amplitude rendering of the i-th (a NaN being zeroed and an
\* infinity made finite by nan_to_num), whatever amplitudes the bundle holds
C30_UnitAmplitudeRows ==
    (last.op = "point_source_linear_response_matrix" /\ last.raised = "none") =>
        /\ Len(last.ret) = Len(entry.images)
        /\ \A i \in 1..Len(last.ret) :
              /\ Len(last.ret[i]) = num_data_evaluate
              /\ \A j \in 1..num_data_evaluate :
                    last.ret[i][j] = nan_to_num(MaskedRenderings[i][j])

\* a matrix computed while the bundle holds a solved amplitude
C30_Witness ==
    /\ last.op = "point_source_linear_response_matrix" /\ last.raised = "none"
    /\ Len(last.ret) > 0
    /\ ~IsNone(entry.kps) /\ List(entry.kps) # <<>>
    /\ Has(List(entry.kps)[1], "point_amp", 11)
    /\ last.ret[1][num_data_evaluate] = Float(2, 0)

----------------------------------------------------------------------------
(* Properties of PSBase, checked under SpecPSBase *)

\* C25: once a PSBase is constructed, and after every update_lens_model, its
\* solver is None exactly when its lens model is None, and is otherwise the
\* LensEquationSolver of the lens model it holds now
C25_SolverFollowsLensModel ==
    ~NoPSBase =>
        /\ (_solver = None) <=> (_lens_model = None)
        /\ _lens_model # None => _solver = [LensEquationSolver |-> _lens_model.v]

\* a PSBase that held one lens model and a solver and now holds another
C25_Witness ==
    /\ last.op = "update_lens_model"
    /\ _lens_model = Some("lens_b")
    /\ _solver = [LensEquationSolver |-> "lens_b"]

\* the lens-model indices of band f, f counted from 0 and a negative f from the end
Band(f) ==
    LET ill == entry.index_lens_model_list.v IN
    IF f >= 0 THEN ill[f + 1] ELSE ill[Len(ill) + f + 1]

\* C26: a PSBase constructed with an index_lens_model_list has a k_list with one
\* entry per image whose i-th entry is the index list of the band of the i-th
\* image; one constructed without has k_list None
C26_KListFollowsFrames ==
    (last.op = "PSBase.__init__" /\ last.raised = "none") =>
        IF entry.index_lens_model_list = None
        THEN k_list = None
        ELSE /\ k_list # None
             /\ Len(k_list.v) = Len(entry.point_source_frame_list.v)
             /\ \A i \in 1..Len(k_list.v) :
                   k_list.v[i] = Band(entry.point_source_frame_list.v[i])

\* the example of the docstring
C26_Witness ==
    /\ last.op = "PSBase.__init__" /\ last.raised = "none"
    /\ entry.index_lens_model_list = Some(<< <<0>>, <<2, 3>>, <<1>> >>)
    /\ entry.point_source_frame_list = Some(<<1, 2, 0, 1>>)
    /\ k_list = Some(<< <<2, 3>>, <<1>>, <<0>>, <<2, 3>> >>)

----------------------------------------------------------------------------
(* Properties of the array helpers, checked under SpecArrays *)

\* C27: _expand_to_array returns an array of num entries for every input: the
\* scalar num times, and a shorter array followed by zeros
C27_ExpandReturnsSizeNum ==
    last.op = "_expand_to_array" =>
        /\ last.raised = "none"
        /\ ~last.ret.isscalar
        /\ Len(last.ret.v) = entry.num
        /\ entry.array.isscalar => \A i \in 1..entry.num : last.ret.v[i] = entry.array.x
        /\ (~entry.array.isscalar /\ Len(entry.array.v) < entry.num) =>
              \A i \in 1..entry.num :
                  last.ret.v[i] = IF i <= Len(entry.array.v) THEN entry.array.v[i] ELSE 0

\* C28: _shrink_array returns a scalar as it is, the first num entries of a
\* longer array and an array of num entries as it is, raises ValueError for a
\* shorter array, and every array it returns has num entries
C28_ShrinkReturnsSizeNum ==
    last.op = "_shrink_array" =>
        IF entry.array.isscalar THEN last.raised = "none" /\ last.ret = entry.array
        ELSE IF Len(entry.array.v) < entry.num THEN last.raised = "ValueError"
        ELSE /\ last.raised = "none"
             /\ ~last.ret.isscalar
             /\ Len(last.ret.v) = entry.num
             /\ \A i \in 1..entry.num : last.ret.v[i] = entry.array.v[i]

\* an array of three entries cut to its first two
C28_Witness ==
    /\ last.op = "_shrink_array"
    /\ entry.array = Array(<<1, 2, 1>>) /\ entry.num = 2
    /\ last.ret = Array(<<1, 2>>)

----------------------------------------------------------------------------
(* Properties of the multi-Gaussian profile, checked under SpecGauss *)

\* the sum over the Gaussians in I of component c at coordinate xv
RECURSIVE SumOver(_, _, _)
SumOver(I, c, xv) ==
    IF I = {} THEN 0
    ELSE LET i == CHOOSE j \in I : TRUE IN
         gaussian_ellipse_kappa(c, xv, entry.amp[i], entry.sigma[i], entry.center_x)
             + SumOver(I \ {i}, c, xv)

\* the sum of component c over all Gaussians, in the shape of x
Total(c) ==
    Shaped(entry.x, [p \in 1..Len(Points(entry.x)) |->
                        SumOver(DOMAIN entry.amp, c, Points(entry.x)[p])])

\* what a call returns for the Gaussians taken in the order pi
Reordered(op, pi) ==
    LET amp == [i \in DOMAIN entry.amp |-> entry.amp[pi[i]]]
        sigma == [i \in DOMAIN entry.sigma |-> entry.sigma[pi[i]]]
    IN  CASE op = "function" -> function(entry.x, amp, sigma, entry.center_x)
          [] op = "derivatives" -> derivatives(entry.x, amp, sigma, entry.center_x)
          [] op = "hessian" -> hessian(entry.x, amp, sigma, entry.center_x)
          [] op = "density_2d" -> density_2d(entry.x, amp, sigma, entry.center_x)

GaussOps == {"function", "derivatives", "hessian", "density_2d"}

\* C29: function, derivatives, hessian and density_2d return, entry by entry and
\* in the shape of x, the sum over the Gaussians of what the single elliptical
\* Gaussian returns for (amp[i], sigma[i]) and the shared centre: zeros for no
\* Gaussian, and the same for every order of the Gaussians
C29_SumOfGaussians ==
    last.op \in GaussOps =>
        /\ last.raised = "none"
        /\ last.op = "function" => last.ret = Total("function")
        /\ last.op = "density_2d" => last.ret = Total("density_2d")
        /\ last.op = "derivatives" => last.ret = <<Total("f_x"), Total("f_y")>>
        /\ last.op = "hessian" =>
              last.ret = <<Total("f_xx"), Total("f_xy"), Total("f_yx"), Total("f_yy")>>
        /\ \A pi \in Permutations(DOMAIN entry.amp) : Reordered(last.op, pi) = last.ret
        /\ (Len(entry.amp) = 0 /\ last.op \in {"function", "density_2d"}) =>
              last.ret = Shaped(entry.x, [p \in 1..Len(Points(entry.x)) |-> 0])

\* the Hessian of two different Gaussians on an array of two coordinates
C29_Witness ==
    /\ last.op = "hessian"
    /\ entry.x = Array(<<0, 2>>)
    /\ entry.amp = <<1, 2>> /\ entry.sigma = <<2, 1>> /\ entry.center_x = 1
    /\ last.ret[1] = Array(<<15, 21>>)

----------------------------------------------------------------------------
(* Properties of the lens mapping across solves, checked under SpecCache *)

\* C23: a solve (image_sparse_solve or likelihood_data_given_model) leaves the
\* mapping of the orchestrator's lens mapping operator as it found it, whatever
\* its lens parameters; and a source_surface_brightness call with
\* update_lens_mapping=False on an operator that holds a mapping applies the
\* mapping it finds, which is thus that of the last build by
\* source_surface_brightness
C23_SolvesKeepLensMapping ==
    /\ last.op \in SolveOps => lens_mapping = entry.mapping
    /\ (Lensed /\ ~entry.update_lens_mapping /\ entry.mapping # NoValue) =>
          /\ lens_mapping = entry.mapping
          /\ last.ret.through = entry.mapping.built_for

\* a solve that returned, with lens parameters other than those the operator's
\* mapping was built for
C23_Witness ==
    /\ last.op \in SolveOps
    /\ last.raised = "none"
    /\ entry.mapping # NoValue
    /\ entry.mapping.built_for # entry.kl
    /\ lens_mapping = entry.mapping

NextInit == Construct

SpecInit == InitNew /\ [][NextInit]_vars

\* the calls on a constructed instance
Next ==
    \/ CallerBundles
    \/ image_sparse_solve
    \/ likelihood_data_given_model
    \/ UpdateFixedParam

Spec == InitReady /\ [][Next]_vars

NextView ==
    \/ CallerLens
    \/ SourceSurfaceBrightness
    \/ LensSurfaceBrightness
SpecView == InitView /\ [][NextView]_vars

NextSolve ==
    \/ CallerLens
    \/ image_sparse_solve
    \/ likelihood_data_given_model
SpecSolve == InitSolve /\ [][NextSolve]_vars

NextCache ==
    \/ CallerLens
    \/ SourceSurfaceBrightness
    \/ image_sparse_solve
    \/ likelihood_data_given_model
SpecCache == InitView /\ [][NextCache]_vars

NextResponse ==
    \/ CallerLens
    \/ PointSourceLinearResponseMatrix
    \/ ImageLinearSolvePointSources
SpecResponse == InitResponse /\ [][NextResponse]_vars

NextPSBase ==
    \/ PSBaseConstruct
    \/ UpdateLensModel
SpecPSBase == InitPSBase /\ [][NextPSBase]_vars

NextArrays ==
    \/ ExpandToArray
    \/ ShrinkArray
SpecArrays == InitArrays /\ [][NextArrays]_vars

NextGauss ==
    \/ Function
    \/ Derivatives
    \/ Hessian
    \/ Density2d
SpecGauss == InitGauss /\ [][NextGauss]_vars
====
